---- MODULE Spec2Model ----
(***************************************************************************)
(* Stellar transaction signing of the TREZOR firmware (firmware/stellar.c). *)
(*                                                                         *)
(* The module state is the pair of file-scope statics of stellar.c,        *)
(* stellar_signing and stellar_activeTx.  The SHA-256 context of the       *)
(* active transaction is modelled by the bytes it has absorbed, so that    *)
(* the byte stream that is eventually signed can be compared literally.    *)
(* Integers that are only serialised (uint32) are naturals below 2^31; a   *)
(* 32 or 64 bit register is the tuple of its bytes, most significant       *)
(* first, so that shifts and byte swaps are exact for every value.         *)
(***************************************************************************)
EXTENDS Naturals, Sequences, FiniteSets, TLC

VARIABLES
    BYTE_ORDER,         \* the build's BYTE_ORDER macro (stellar.c:499, 516)
    stellar_signing,    \* static bool stellar_signing
    stellar_activeTx,   \* static StellarTransaction stellar_activeTx
    out,                \* what the last call sent to the caller / asked the user
    halted,             \* the device faulted on a NULL HDNode dereference
    nops,               \* stellar_addOperation calls since the last header
    ref_signing,        \* the same calls replayed on a device that was fresh
    ref_activeTx,       \*   when the last header arrived (self-composition)
    envelope            \* the bytes hashed by the last header call, then the fields
                        \*   of each operation the user accepted since; empty once
                        \*   the hash context is finalised (history)

vars == << BYTE_ORDER, stellar_signing, stellar_activeTx, out, halted, nops,
           ref_signing, ref_activeTx, envelope >>

----------------------------------------------------------------------------
(* Bounds of the model *)

MaxNumOps == 1          \* largest num_operations a header declares
MaxOpCalls == 2         \* stellar_addOperation calls explored per session
MaxIndex == 1           \* largest account index of a header
MaxPrimitiveBytes == 8  \* a hash-update primitive is called below this many hashed bytes
MaxCrcLen == 3          \* longest generated buffer given to stellar_crc16

----------------------------------------------------------------------------
(* Bytes, registers, C strings *)

Byte == 0..255

Min(a, b) == IF a <= b THEN a ELSE b

Fill(n, b) == [i \in 1..n |-> b]

Take(s, n) == SubSeq(s, 1, Min(n, Len(s)))

\* a uint32_t register holding v, as its four bytes, most significant first
Word32(v) ==
    << (v \div 16777216) % 256, (v \div 65536) % 256, (v \div 256) % 256, v % 256 >>

\* REVERSE32 / REVERSE64 of sha2.h: byte swap of the register
REVERSE32(w) == << w[4], w[3], w[2], w[1] >>

REVERSE64(w) == << w[8], w[7], w[6], w[5], w[4], w[3], w[2], w[1] >>

\* strnlen(s, n): bytes before the first NUL of the buffer s, at most n
strnlen(s, n) ==
    LET nul == { i \in 1..Len(s) : s[i] = 0 }
        upto == IF nul = {} THEN Len(s)
                ELSE (CHOOSE i \in nul : \A j \in nul : i <= j) - 1
    IN  Min(upto, n)

----------------------------------------------------------------------------
(* SHA-256 streaming context: the bytes absorbed since sha256_Init.        *)
(* A context that was zeroed (memset, or sha256_Final's clean-up) is not   *)
(* an initialised one: valid = FALSE.                                      *)

ZeroCtx == [valid |-> FALSE, bytes |-> << >>]

sha256_Init(ctx) == [valid |-> TRUE, bytes |-> << >>]

sha256_Update(ctx, data) == [ctx EXCEPT !.bytes = @ \o data]

\* the digest is an injective image of what the context absorbed
sha256_Digest(ctx) == [valid |-> ctx.valid, bytes |-> ctx.bytes]

PassphrasePublic == "Public Global Stellar Network ; September 2015"
PassphraseTestnet == "Test SDF Network ; September 2015"
PassphrasePrivate == "Private Network"

\* sha256_Raw(network_passphrase, strnlen(network_passphrase, 1024))
sha256_Raw(passphrase) ==
    CASE passphrase = PassphrasePublic ->
           << 122, 195, 57, 151, 84, 78, 49, 117, 210, 102, 189, 2, 36, 57, 178, 44,
              219, 22, 80, 140, 1, 22, 63, 38, 229, 203, 42, 62, 16, 69, 169, 121 >>
      [] passphrase = PassphraseTestnet ->
           << 206, 224, 48, 45, 89, 132, 77, 50, 189, 202, 145, 92, 130, 3, 221, 68,
              179, 63, 187, 126, 220, 25, 5, 30, 163, 122, 190, 223, 40, 236, 212, 114 >>
      [] OTHER ->
           << 10, 159, 57, 32, 225, 28, 36, 170, 37, 183, 163, 232, 218, 237, 246, 240,
              168, 18, 219, 20, 128, 217, 43, 225, 241, 1, 163, 19, 227, 97, 189, 142 >>

----------------------------------------------------------------------------
(* Hash-update primitives (stellar.c:496-565).  Each takes the active      *)
(* transaction and returns it with the bytes appended to its context.      *)

stellar_hashupdate_bytes(tx, data) ==
    [tx EXCEPT !.sha256_ctx = sha256_Update(@, data)]

stellar_hashupdate_uint32(tx, value) ==
    LET w == Word32(value)
        v == IF BYTE_ORDER = "LITTLE_ENDIAN" THEN REVERSE32(w) ELSE w
        \* data[0] = v & 0xFF, data[1] = (v >> 8) & 0xFF, ..., data[3] = v >> 24
        data == << v[4], v[3], v[2], v[1] >>
    IN  stellar_hashupdate_bytes(tx, data)

\* value is the uint64_t register, as 8 bytes most significant first
stellar_hashupdate_uint64(tx, value) ==
    LET v == IF BYTE_ORDER = "LITTLE_ENDIAN" THEN REVERSE64(value) ELSE value
        data == << v[8], v[7], v[6], v[5], v[4], v[3], v[2], v[1] >>
    IN  stellar_hashupdate_bytes(tx, data)

stellar_hashupdate_bool(tx, value) ==
    IF value THEN stellar_hashupdate_uint32(tx, 1)
             ELSE stellar_hashupdate_uint32(tx, 0)

stellar_hashupdate_string(tx, data, len) ==
    stellar_hashupdate_bytes(stellar_hashupdate_uint32(tx, len), Take(data, len))

\* Mutant: the key bytes go in without the key type before them
stellar_hashupdate_address_rawKey(tx, address_bytes) ==
    stellar_hashupdate_bytes(tx, Take(address_bytes, 32))

stellar_hashupdate_address(tx, address_bytes) ==
    stellar_hashupdate_bytes(stellar_hashupdate_uint32(tx, 0), Take(address_bytes, 32))

----------------------------------------------------------------------------
(* Account addresses (stellar.c:406-453) *)

\* a ^ b on n-bit unsigned values
RECURSIVE BitXor(_, _, _)
BitXor(a, b, n) ==
    IF n = 0 THEN 0
    ELSE (((a % 2) + (b % 2)) % 2) + 2 * BitXor(a \div 2, b \div 2, n - 1)

\* the inner loop of stellar_crc16 (lines 444-449) from bit bitidx of byte on;
\* crc is the uint16_t
RECURSIVE crc16_byte(_, _, _)
crc16_byte(crc, byte, bitidx) ==
    IF bitidx >= 8 THEN crc
    ELSE LET bit == (byte \div (2 ^ (7 - bitidx))) % 2 = 1
             c15 == (crc \div 32768) % 2 = 1
             shifted == (crc * 2) % 65536
         IN  crc16_byte(IF c15 # bit THEN BitXor(shifted, 4129, 16) ELSE shifted,
                        byte, bitidx + 1)

\* the outer loop (lines 442-450) from index i on
RECURSIVE crc16_loop(_, _, _, _)
crc16_loop(crc, bytes, i, length) ==
    IF i >= length THEN crc
    ELSE LET next == crc16_byte(crc, bytes[i + 1], 0)
         IN  CASE next \in 0..65535 -> crc16_loop(next, bytes, i + 1, length)

\* Mutant: the register starts at 0xFFFF, as in the implementation this one
\* was ported from
stellar_crc16_initFFFF(bytes, length) ==
    crc16_loop(65535, bytes, 0, length) % 65536

\* uint16_t stellar_crc16(uint8_t *bytes, uint32_t length)
stellar_crc16(bytes, length) ==
    crc16_loop(0, bytes, 0, length) % 65536

Base32Alphabet ==
    << "A", "B", "C", "D", "E", "F", "G", "H", "I", "J", "K", "L", "M", "N", "O", "P",
       "Q", "R", "S", "T", "U", "V", "W", "X", "Y", "Z", "2", "3", "4", "5", "6", "7" >>

\* one block of base32: five bytes to eight 5-bit digits
base32_5to8(in) ==
    << in[1] \div 8,
       ((in[1] % 8) * 4) + (in[2] \div 64),
       (in[2] \div 2) % 32,
       ((in[2] % 2) * 16) + (in[3] \div 16),
       ((in[3] % 16) * 2) + (in[4] \div 128),
       (in[4] \div 4) % 32,
       ((in[4] % 4) * 8) + (in[5] \div 32),
       in[5] % 32 >>

\* base32_encode(in, inlen, out, outlen, BASE32_ALPHABET_RFC4648) into a
\* buffer that is large enough: the blocks of in, the last one padded with
\* zero bytes, cut to the digits that carry input bits, without '='
RECURSIVE base32_digits(_)
base32_digits(in) ==
    IF Len(in) = 0 THEN << >>
    ELSE IF Len(in) < 5
    THEN SubSeq(base32_5to8(in \o Fill(5 - Len(in), 0)), 1, (Len(in) * 8 + 4) \div 5)
    ELSE base32_5to8(in) \o base32_digits(SubSeq(in, 6, Len(in)))

base32_encode(in) ==
    LET d == base32_digits(in)
    IN  [i \in 1..Len(d) |-> Base32Alphabet[d[i] + 1]]

\* Mutant: the checksum is stored high byte first
stellar_publicAddressAsStr_checksumHighFirst(bytes) ==
    LET version == << 48 >> \o Take(bytes, 32)
        checksum == stellar_crc16(version, 33)
        bytes_full == version \o << (checksum \div 256) % 256, checksum % 256 >>
    IN  [out |-> base32_encode(bytes_full), ret |-> 56]

\* size_t stellar_publicAddressAsStr(uint8_t *bytes, char *out, size_t outlen),
\* with the 57-byte out every caller passes: the string written and the
\* value returned
stellar_publicAddressAsStr(bytes) ==
    LET version == << 48 >> \o Take(bytes, 32)
        checksum == stellar_crc16(version, 33)
        bytes_full == version \o << checksum % 256, (checksum \div 256) % 256 >>
    IN  [out |-> base32_encode(bytes_full), ret |-> 56]

----------------------------------------------------------------------------
(* Key derivation (stellar.c:458-494).  bip32 and storage are external:    *)
(* the node derived for an index is a fixed injective image of the index,  *)
(* and the outcome of storage_getRootNode / hdnode_private_ckd_cached is   *)
(* an input of each call.                                                  *)

NullNode == [null |-> TRUE]

PubKeyAt(index) == [j \in 1..32 |-> (16 * (index + 1) + j) % 256]

PrivKeyAt(index) == [j \in 1..32 |-> (200 + 7 * index + j) % 256]

\* how one call of stellar_deriveNode ends, and, when it returns NULL, how
\* the caller's dereference of NULL ends: a fault, or a read of memory at 0
DeriveOutcomes == { "ok", "no_root", "ckd_failed" }

UBOutcomes(outcome) == IF outcome = "ok" THEN { "none" } ELSE { "fault", "read" }

\* HDNode *stellar_deriveNode(uint32_t index)
stellar_deriveNode(index, outcome) ==
    IF outcome = "no_root" THEN NullNode
    ELSE IF outcome = "ckd_failed" THEN NullNode
    ELSE [null |-> FALSE,
          private_key |-> PrivKeyAt(index),
          public_key |-> << 1 >> \o PubKeyAt(index)]

\* What a read through a NULL HDNode * yields when it does not fault: bytes
\* that are no key of this device.
IndeterminateBytes == { Fill(32, 165) }

NullRead(g) == [null |-> FALSE, private_key |-> g, public_key |-> << g[1] >> \o g]

\* void stellar_getPubkeyAtIndex(index, out, outlen), given the node that
\* stellar_deriveNode returned (or the bytes read through NULL); buf is the
\* caller's buffer before the call.
stellar_getPubkeyAtIndex(node, buf, outlen) ==
    IF outlen < 32 THEN buf
    ELSE Take(Tail(node.public_key), outlen)

----------------------------------------------------------------------------
(* The active transaction *)

ZeroTx ==
    [ sha256_ctx |-> ZeroCtx,
      num_operations |-> 0,
      confirmed_operations |-> 0,
      account_id |-> Fill(32, 0),
      account_index |-> 0,
      network_type |-> 0,
      memo_type |-> 0,
      xdr_offset |-> 0 ]

\* Mutant: the reset of line 51 is missing
memset_activeTx_skipped(tx) == tx

\* memset(&stellar_activeTx, 0, sizeof(StellarTransaction))
memset_activeTx(tx) == ZeroTx

\* uint8_t stellar_allOperationsConfirmed()
stellar_allOperationsConfirmed(tx) ==
    tx.confirmed_operations = tx.num_operations

\* A run of one entry point: the statics, plus what it sent and prompted.
Run(signing, tx) ==
    [signing |-> signing, tx |-> tx, failures |-> << >>, prompts |-> << >>]

fsm_sendFailure(r, code) == [r EXCEPT !.failures = Append(@, code)]

\* stellar_layoutTransactionDialog + protectButton: one confirmation request
layoutTransactionDialog(r, title) == [r EXCEPT !.prompts = Append(@, title)]

\* void stellar_signingAbort()
stellar_signingAbort(r) ==
    fsm_sendFailure([r EXCEPT !.signing = FALSE], "ActionCancelled")

----------------------------------------------------------------------------
(* stellar_signingInit (stellar.c:49-144) *)

\* Mutant: the envelope type is hashed before the network hash
signingInit_prefix_typeFirst(r, msg) ==
    LET tx0 == memset_activeTx(r.tx)
        tx1 == [tx0 EXCEPT !.sha256_ctx = sha256_Init(@)]
        tx2 == [tx1 EXCEPT !.num_operations = msg.num_operations]
        tx3 == stellar_hashupdate_bytes(tx2, << 0, 0, 0, 2 >>)
        tx4 == stellar_hashupdate_bytes(tx3, sha256_Raw(msg.network_passphrase))
    IN  [r EXCEPT !.signing = TRUE, !.tx = tx4]

\* lines 51-72: reset, then the network hash and the envelope type
signingInit_prefix(r, msg) ==
    LET tx0 == memset_activeTx(r.tx)
        tx1 == [tx0 EXCEPT !.sha256_ctx = sha256_Init(@)]
        network_hash == sha256_Raw(msg.network_passphrase)
        tx_type_bytes == << 0, 0, 0, 2 >>
        tx2 == [tx1 EXCEPT !.num_operations = msg.num_operations]
        tx3 == stellar_hashupdate_bytes(tx2, network_hash)
        tx4 == stellar_hashupdate_bytes(tx3, tx_type_bytes)
    IN  [r EXCEPT !.signing = TRUE, !.tx = tx4]

\* Mutant: the bounds are hashed as the 32-bit values the message carries
signingInit_timebounds_32bit(tx, msg) ==
    IF msg.timebounds_start > 0 \/ msg.timebounds_end > 0
    THEN LET t1 == stellar_hashupdate_bool(tx, TRUE)
             t2 == stellar_hashupdate_uint32(t1, msg.timebounds_start)
         IN  stellar_hashupdate_uint32(t2, msg.timebounds_end)
    ELSE stellar_hashupdate_bool(tx, FALSE)

\* lines 89-106: time bounds
signingInit_timebounds(tx, msg) ==
    LET has_timebounds == (msg.timebounds_start > 0 \/ msg.timebounds_end > 0)
    IN  IF has_timebounds
        THEN LET t1 == stellar_hashupdate_bool(tx, TRUE)
                 t2 == stellar_hashupdate_uint32(t1, 0)
                 t3 == stellar_hashupdate_uint32(t2, msg.timebounds_start)
                 t4 == stellar_hashupdate_uint32(t3, 0)
             IN  stellar_hashupdate_uint32(t4, msg.timebounds_end)
        ELSE stellar_hashupdate_bool(tx, FALSE)

\* lines 108-129: memo
signingInit_memo(tx, msg) ==
    LET t1 == stellar_hashupdate_uint32(tx, msg.memo_type)
    IN  CASE msg.memo_type = 0 -> t1
          [] msg.memo_type = 1 ->
               stellar_hashupdate_string(t1, msg.memo_text, strnlen(msg.memo_text, 28))
          [] msg.memo_type = 2 -> stellar_hashupdate_uint64(t1, msg.memo_id)
          [] msg.memo_type \in {3, 4} ->
               stellar_hashupdate_bytes(t1, Take(msg.memo_hash.bytes, msg.memo_hash.size))
          [] OTHER -> t1

\* lines 134-143: network type
signingInit_network(tx, msg) ==
    IF msg.network_passphrase = PassphrasePublic THEN [tx EXCEPT !.network_type = 1]
    ELSE IF msg.network_passphrase = PassphraseTestnet THEN [tx EXCEPT !.network_type = 2]
    ELSE [tx EXCEPT !.network_type = 3]

\* Mutant: a public key sent by the client replaces the derived one
signingInit_rest_trustsClient(r, msg, bytes_pubkey) ==
    LET key == IF msg.public_key.size > 0 THEN msg.public_key.bytes ELSE bytes_pubkey
        t1 == [r.tx EXCEPT !.account_id = key, !.account_index = msg.index]
        t2 == stellar_hashupdate_address(t1, key)
        t3 == stellar_hashupdate_uint32(t2, msg.fee)
        t4 == stellar_hashupdate_uint64(t3, msg.sequence_number)
        t5 == signingInit_timebounds(t4, msg)
        t6 == signingInit_memo(t5, msg)
        t7 == stellar_hashupdate_uint32(t6, msg.num_operations)
    IN  [r EXCEPT !.tx = signingInit_network(t7, msg)]

\* lines 74-143, given bytes_pubkey as stellar_getPubkeyAtIndex left it
signingInit_rest(r, msg, bytes_pubkey) ==
    LET t1 == [r.tx EXCEPT !.account_id = bytes_pubkey, !.account_index = msg.index]
        t2 == stellar_hashupdate_address(t1, bytes_pubkey)
        t3 == stellar_hashupdate_uint32(t2, msg.fee)
        t4 == stellar_hashupdate_uint64(t3, msg.sequence_number)
        t5 == signingInit_timebounds(t4, msg)
        t6 == signingInit_memo(t5, msg)
        t7 == stellar_hashupdate_uint32(t6, msg.num_operations)
    IN  [r EXCEPT !.tx = signingInit_network(t7, msg)]

\* the whole function when the node is readable
signingInit_run(r, msg, node, buf) ==
    signingInit_rest(signingInit_prefix(r, msg), msg,
                     stellar_getPubkeyAtIndex(node, buf, 32))

----------------------------------------------------------------------------
(* stellar_addOperation and the two operation handlers (stellar.c:149-314) *)

\* Mutant: the operation is counted before the user has answered
stellar_confirmCreateAccountOp_countsFirst(r, msg, button) ==
    LET t1 == stellar_hashupdate_address(r.tx, msg.destination_account.bytes)
        t2 == stellar_hashupdate_uint64(t1, msg.amount)
        t3 == [t2 EXCEPT !.confirmed_operations = @ + 1]
        r1 == layoutTransactionDialog([r EXCEPT !.tx = t3], "Create account: ")
    IN  IF ~button THEN stellar_signingAbort(r1) ELSE r1

\* void stellar_confirmCreateAccountOp(StellarTxOpAck *msg)
stellar_confirmCreateAccountOp(r, msg, button) ==
    LET t1 == stellar_hashupdate_address(r.tx, msg.destination_account.bytes)
        t2 == stellar_hashupdate_uint64(t1, msg.amount)
        r1 == layoutTransactionDialog([r EXCEPT !.tx = t2], "Create account: ")
    IN  IF ~button
        THEN stellar_signingAbort(r1)
        ELSE [r1 EXCEPT !.tx.confirmed_operations = @ + 1]

\* lines 254-287: the asset of a payment
confirmPaymentOp_asset(tx, msg) ==
    LET a == msg.asset
        t1 == IF a.type = 0 THEN stellar_hashupdate_uint32(tx, a.type) ELSE tx
        t2 == IF a.type = 1 THEN stellar_hashupdate_bytes(t1, Take(a.code, 4)) ELSE t1
        t3 == IF a.type = 2 THEN stellar_hashupdate_bytes(t2, Take(a.code, 12)) ELSE t2
    IN  IF a.type = 1 \/ a.type = 2
        THEN stellar_hashupdate_bytes(t3, Take(a.issuer.bytes, a.issuer.size))
        ELSE t3

\* Mutant: an accepted Payment is not counted
stellar_confirmPaymentOp_uncounted(r, msg, button) ==
    LET t1 == stellar_hashupdate_address(r.tx, msg.destination_account.bytes)
        t2 == confirmPaymentOp_asset(t1, msg)
        t3 == stellar_hashupdate_uint64(t2, msg.amount)
        r1 == layoutTransactionDialog([r EXCEPT !.tx = t3], "Pay")
    IN  IF ~button
        THEN stellar_signingAbort(r1)
        ELSE r1

\* void stellar_confirmPaymentOp(StellarTxOpAck *msg)
stellar_confirmPaymentOp(r, msg, button) ==
    LET t1 == stellar_hashupdate_address(r.tx, msg.destination_account.bytes)
        t2 == confirmPaymentOp_asset(t1, msg)
        t3 == stellar_hashupdate_uint64(t2, msg.amount)
        r1 == layoutTransactionDialog([r EXCEPT !.tx = t3], "Pay")
    IN  IF ~button
        THEN stellar_signingAbort(r1)
        ELSE [r1 EXCEPT !.tx.confirmed_operations = @ + 1]

\* Mutant: the trailing union is hashed after every operation
addOperation_dispatch_alwaysCloses(r, msg, button_op) ==
    LET r1 == [r EXCEPT !.tx = stellar_hashupdate_uint32(@, msg.type)]
        r2 == IF msg.type = 0 THEN stellar_confirmCreateAccountOp(r1, msg, button_op) ELSE r1
        r3 == IF msg.type = 1 THEN stellar_confirmPaymentOp(r2, msg, button_op) ELSE r2
    IN  [r3 EXCEPT !.tx = stellar_hashupdate_uint32(@, 0)]

\* lines 181-197: from the operation type to the trailing union
addOperation_dispatch(r, msg, button_op) ==
    LET r1 == [r EXCEPT !.tx = stellar_hashupdate_uint32(@, msg.type)]
        r2 == IF msg.type = 0 THEN stellar_confirmCreateAccountOp(r1, msg, button_op) ELSE r1
        r3 == IF msg.type = 1 THEN stellar_confirmPaymentOp(r2, msg, button_op) ELSE r2
    IN  IF stellar_allOperationsConfirmed(r3.tx)
        THEN [r3 EXCEPT !.tx = stellar_hashupdate_uint32(@, 0)]
        ELSE r3

\* Mutant: the check of stellar_signing (lines 151-155) is missing
stellar_addOperation_unguarded(r, msg, button_src, button_op) ==
    IF msg.source_account.size > 0
    THEN LET r1 == layoutTransactionDialog(r, "Op src account OK?")
         IN  IF ~button_src
             THEN stellar_signingAbort(r1)
             ELSE addOperation_dispatch(
                      [r1 EXCEPT !.tx = stellar_hashupdate_address(@, msg.source_account.bytes)],
                      msg, button_op)
    ELSE addOperation_dispatch(
             [r EXCEPT !.tx = stellar_hashupdate_bool(@, FALSE)], msg, button_op)

\* void stellar_addOperation(StellarTxOpAck *msg); button_src and button_op
\* are what protectButton returns for the source-account and operation prompts
stellar_addOperation(r, msg, button_src, button_op) ==
    IF ~r.signing
    THEN fsm_sendFailure(r, "UnexpectedMessage")
    ELSE IF msg.source_account.size > 0
    THEN LET r1 == layoutTransactionDialog(r, "Op src account OK?")
         IN  IF ~button_src
             THEN stellar_signingAbort(r1)
             ELSE addOperation_dispatch(
                      [r1 EXCEPT !.tx = stellar_hashupdate_address(@, msg.source_account.bytes)],
                      msg, button_op)
    ELSE addOperation_dispatch(
             [r EXCEPT !.tx = stellar_hashupdate_bool(@, FALSE)], msg, button_op)

----------------------------------------------------------------------------
(* stellar_getSignatureForActiveTx (stellar.c:341-354) *)

NoSignature == << >>

\* ed25519_sign(to_sign, 32, private_key, public_key + 1, signature)
ed25519_sign(to_sign, private_key, public_key) ==
    [to_sign |-> to_sign, private_key |-> private_key, public_key |-> public_key]

\* lines 345-348: sha256_Final hands out the digest and clears the context
getSignature_final(tx) == [tx EXCEPT !.sha256_ctx = ZeroCtx]

\* the signature written to out_signature, given the node that was read
stellar_getSignatureForActiveTx(tx, node) ==
    ed25519_sign(sha256_Digest(tx.sha256_ctx), node.private_key, Tail(node.public_key))

----------------------------------------------------------------------------
(* stellar_layoutTransactionSummary (stellar.c:570-713).  A line of a      *)
(* dialog is a record: what kind of text it is and the data it renders;    *)
(* the formatters (bignum, data2hex, strftime) are external and a line     *)
(* they write is the injective image of the value formatted.               *)

Line(kind, data) == [kind |-> kind, data |-> data]

\* a line of str_lines after memset: the empty string
EmptyLine == Line("", << >>)

\* a line holding a string literal of the source
Label(text) == Line(text, << >>)

\* a line holding characters copied from a message buffer
TextLine(chars) == IF chars = << >> THEN EmptyLine ELSE Line("text", chars)

\* strlcpy(dst, src + offset, size): the bytes of the buffer src from offset
\* up to its first NUL, at most size - 1 of them
strlcpy(src, offset, size) ==
    LET rest == SubSeq(src, offset + 1, Len(src))
    IN  Take(rest, strnlen(rest, size - 1))

stellar_format_stroops(number) == Line("stroops", << number >>)

stellar_format_uint32(number) == Line("decimal", << number >>)

\* number is the uint64_t register
stellar_format_uint64(number) == Line("decimal", number)

data2hex(bytes) == Line("hex", bytes)

\* gmtime + strftime("%F %T (UTC)") of a time bound, or the text for none
layoutTransactionSummary_timebound(timebound) ==
    IF timebound # 0 THEN Line("utc", << timebound >>) ELSE Label("[no restriction]")

\* the addresses of the keys account_id can hold, computed once
AccountAddresses ==
    [k \in { PubKeyAt(i) : i \in 0..MaxIndex } \cup IndeterminateBytes \cup { Fill(32, 0) }
        |-> stellar_publicAddressAsStr(k).out]

\* const char **stellar_lineBreakAddress(uint8_t *addrbytes): rows of 16, 20
\* and 20 characters
stellar_lineBreakAddress(addrbytes) ==
    LET str_fulladdr == IF addrbytes \in DOMAIN AccountAddresses
                        THEN AccountAddresses[addrbytes]
                        ELSE stellar_publicAddressAsStr(addrbytes).out
    IN  << [kind |-> "address", data |-> << >>, chars |-> SubSeq(str_fulladdr, 1, 16)],
           [kind |-> "address", data |-> << >>, chars |-> SubSeq(str_fulladdr, 17, 36)],
           [kind |-> "address", data |-> << >>, chars |-> SubSeq(str_fulladdr, 37, 56)] >>

\* lines 581-608: the fee and operation count, and the signing account
layoutTransactionSummary_account(tx, msg) ==
    LET str_addr_rows == stellar_lineBreakAddress(tx.account_id)
    IN  << Line("Fee", << msg.fee, msg.num_operations >>), Label("Signing with:"),
           str_addr_rows[1], str_addr_rows[2], str_addr_rows[3] >>

\* lines 614-651: the five lines of the memo dialog
layoutTransactionSummary_memo(tx, msg) ==
    LET cleared == << EmptyLine, EmptyLine, EmptyLine, EmptyLine, EmptyLine >>
        none == IF tx.memo_type = 0
                THEN [cleared EXCEPT ![1] = Label("[No Memo]")] ELSE cleared
        text == IF msg.memo_type = 1
                THEN [none EXCEPT ![1] = Label("Memo (TEXT)"),
                                  ![2] = TextLine(strlcpy(msg.memo_text, 0, 19 + 1)),
                                  ![3] = TextLine(strlcpy(msg.memo_text, 19, 9 + 1))]
                ELSE none
        id == IF tx.memo_type = 2
              THEN [text EXCEPT ![1] = Label("Memo (ID)"),
                                ![2] = stellar_format_uint64(msg.memo_id)]
              ELSE text
        hash == IF tx.memo_type = 3 THEN [id EXCEPT ![1] = Label("Memo (HASH)")] ELSE id
        return == IF tx.memo_type = 4
                  THEN [hash EXCEPT ![1] = Label("Memo (RETURN)")] ELSE hash
        needs_memo_hash_confirm == tx.memo_type = 3 \/ tx.memo_type = 4
    IN  IF needs_memo_hash_confirm
        THEN [return EXCEPT ![2] = data2hex(SubSeq(msg.memo_hash.bytes, 1, 8)),
                            ![3] = data2hex(SubSeq(msg.memo_hash.bytes, 9, 16)),
                            ![4] = data2hex(SubSeq(msg.memo_hash.bytes, 17, 24)),
                            ![5] = data2hex(SubSeq(msg.memo_hash.bytes, 25, 32))]
        ELSE return

\* lines 665-707: the lines of the time-bounds dialog; the lines written for
\* timebounds_start are overwritten by those for timebounds_end
layoutTransactionSummary_timebounds(msg) ==
    << Label("Confirm Time Bounds"), Label("Valid from:"),
       layoutTransactionSummary_timebound(msg.timebounds_end), EmptyLine, EmptyLine >>

\* lines 609-712: the three dialogs in order, each ended by protectButton; a
\* rejected dialog aborts the session and shows no further dialog
layoutTransactionSummary_confirm(r, msg, buttons, account, memo, timebounds) ==
    LET r1 == layoutTransactionDialog(r, account)
        r2 == layoutTransactionDialog(r1, memo)
        r3 == layoutTransactionDialog(r2, timebounds)
    IN  IF ~buttons[1] THEN stellar_signingAbort(r1)
        ELSE IF ~buttons[2] THEN stellar_signingAbort(r2)
        ELSE IF msg.timebounds_start # 0 \/ msg.timebounds_end # 0
        THEN IF ~buttons[3] THEN stellar_signingAbort(r3) ELSE r3
        ELSE r2

\* void stellar_layoutTransactionSummary(StellarSignTx *msg); buttons are
\* what protectButton returns for the three dialogs
stellar_layoutTransactionSummary(r, msg, buttons) ==
    layoutTransactionSummary_confirm(r, msg, buttons,
                                     layoutTransactionSummary_account(r.tx, msg),
                                     layoutTransactionSummary_memo(r.tx, msg),
                                     layoutTransactionSummary_timebounds(msg))

----------------------------------------------------------------------------
(* Messages the caller can send *)

KeySource == [j \in 1..32 |-> (3 * j) % 256]
KeyDestination == [j \in 1..32 |-> (5 * j + 1) % 256]
KeyIssuer == [j \in 1..32 |-> (7 * j + 2) % 256]

AssetCode == << 85, 83, 68, 67, 79, 73, 78, 49, 50, 51, 52, 53 >>

\* uint64 fields, as registers
Amount == << 0, 0, 0, 0, 2, 250, 240, 128 >>          \* 50000000 stroops
SequenceNumber == << 0, 0, 1, 2, 3, 4, 5, 6 >>
MemoId == << 1, 2, 3, 4, 5, 6, 7, 8 >>

MemoHashBytes == [j \in 1..32 |-> 224 + (j % 32)]

\* char memo_text[29] as nanopb leaves it: the text, then NUL
MemoTexts == { << 0 >>, << 104, 105, 0 >>, Fill(28, 97) \o << 0 >> }

StellarSignTx(passphrase, index, tb, memo, n) ==
    [ network_passphrase |-> passphrase,
      index |-> index,
      fee |-> 100,
      sequence_number |-> SequenceNumber,
      timebounds_start |-> tb[1],
      timebounds_end |-> tb[2],
      memo_type |-> memo.type,
      memo_text |-> memo.text,
      memo_id |-> MemoId,
      memo_hash |-> [bytes |-> MemoHashBytes, size |-> memo.size],
      num_operations |-> n,
      public_key |-> [bytes |-> Fill(32, 0), size |-> 0] ]

Memo(type, text, size) == [type |-> type, text |-> text, size |-> size]

\* every memo shape: all five types, an unknown type, short hash payloads
AllMemos ==
    { Memo(0, << 0 >>, 0), Memo(2, << 0 >>, 0), Memo(5, << 0 >>, 0) }
    \cup { Memo(1, t, 0) : t \in MemoTexts }
    \cup { Memo(ty, << 0 >>, sz) : ty \in {3, 4}, sz \in {0, 16, 32} }

AllTimeBounds == { << 0, 0 >>, << 5, 0 >>, << 0, 7 >>, << 5, 16909060 >> }

Passphrases == { PassphrasePublic, PassphraseTestnet, PassphrasePrivate }

NoMemo == Memo(0, << 0 >>, 0)

\* headers for the header-encoding claims: every time-bounds shape with every
\* memo shape, and every passphrase with every index and operation count
AllHeaders ==
    { StellarSignTx(PassphrasePublic, 0, tb, m, 1) :
        tb \in AllTimeBounds, m \in AllMemos }
    \cup { StellarSignTx(p, i, << 0, 0 >>, NoMemo, n) :
        p \in Passphrases, i \in 0..MaxIndex, n \in 0..MaxNumOps }

\* headers for the session state machine
SessionHeaders ==
    { StellarSignTx(PassphrasePublic, 0, << 0, 0 >>, NoMemo, n) : n \in 0..MaxNumOps }
    \cup { StellarSignTx(PassphraseTestnet, MaxIndex, << 5, 7 >>, NoMemo, 1) }

\* the public key the client may send with the header (line 74: ignored):
\* none, a key of another party, the device's key for another index
ClientKeys ==
    { [bytes |-> Fill(32, 0), size |-> 0],
      [bytes |-> KeySource, size |-> 32],
      [bytes |-> PubKeyAt(MaxIndex + 1), size |-> 32] }

WithClientKey(msg, k) == [msg EXCEPT !.public_key = k]

\* headers for the signer-key claim: every index, with every client key
KeyHeaders ==
    { WithClientKey(StellarSignTx(p, i, << 0, 0 >>, NoMemo, n), k) :
        p \in { PassphrasePublic, PassphrasePrivate }, i \in 0..MaxIndex,
        n \in 0..MaxNumOps, k \in ClientKeys }

StellarTxOpAck(src_size, type, asset_type) ==
    [ source_account |-> [bytes |-> KeySource, size |-> src_size],
      type |-> type,
      destination_account |-> [bytes |-> KeyDestination, size |-> 32],
      amount |-> Amount,
      asset |-> [type |-> asset_type, code |-> AssetCode,
                 issuer |-> [bytes |-> KeyIssuer, size |-> 32]] ]

\* CreateAccount (with and without a source account), Payment (native and
\* custom asset), and an unsupported type
OpMsgs ==
    { StellarTxOpAck(0, ty, 0) : ty \in {0, 1, 2} }
    \cup { StellarTxOpAck(32, 0, 0), StellarTxOpAck(0, 1, 1) }

\* Payment with every asset type the message can carry (3 is no asset type
\* of the protocol) and with an issuer of full size or absent
PaymentMsgs ==
    { StellarTxOpAck(0, 1, a) : a \in 0..3 }
    \cup { [StellarTxOpAck(0, 1, 1) EXCEPT !.asset.issuer.size = 0],
           StellarTxOpAck(32, 1, 2) }

\* every operation shape
AllOpMsgs == OpMsgs \cup PaymentMsgs

\* headers that open a session for the operation encodings
OpHeaders ==
    { StellarSignTx(PassphrasePublic, 0, << 0, 0 >>, NoMemo, n) : n \in 0..MaxNumOps }

\* what the user can answer to the prompts msg raises: the source-account
\* prompt is shown only for a source account, the operation prompt only for
\* types 0 and 1 (an answer to a prompt that is not shown is written TRUE)
Buttons(msg) ==
    { b \in BOOLEAN \X BOOLEAN :
        /\ (msg.source_account.size = 0 => b[1])
        /\ (msg.type \notin {0, 1} => b[2])
        /\ (~b[1] => b[2]) }

----------------------------------------------------------------------------
(* The encodings of the fields of a transaction *)

\* the bytes a primitive appends to an empty context
Bytes(tx) == tx.sha256_ctx.bytes

EmptyTx == [ZeroTx EXCEPT !.sha256_ctx = sha256_Init(@)]

u32(v) == Bytes(stellar_hashupdate_uint32(EmptyTx, v))

u64(v) == Bytes(stellar_hashupdate_uint64(EmptyTx, v))

\* address(x): the key type discriminant, then the 32 key bytes
address(x) == u32(0) \o x

\* the source-account field of an operation
SourceField(msg) ==
    IF msg.source_account.size > 0 THEN address(msg.source_account.bytes) ELSE u32(0)

\* the fields stellar_addOperation hashes for msg once the source-account
\* prompt is passed
OperationFields(msg) ==
    SourceField(msg) \o u32(msg.type) \o
    CASE msg.type = 0 -> address(msg.destination_account.bytes) \o u64(msg.amount)
      [] msg.type = 1 -> address(msg.destination_account.bytes)
                           \o Bytes(confirmPaymentOp_asset(EmptyTx, msg))
                           \o u64(msg.amount)
      [] OTHER -> << >>

----------------------------------------------------------------------------
(* The state machine: one action per entry point of stellar.c *)

\* The record of the last call: its name, its argument and the answers of
\* the user (when the call got as far as reading them), the failures it sent
\* to the caller, the confirmations it requested, the
\* signature it wrote, how key derivation ended in it, whether it is an
\* abort that follows an abort, and whether it is a header that arrived over
\* statics left by earlier calls.
Sent(call, r, signature, derive, arg, buttons) ==
    [ call |-> call, failures |-> r.failures, prompts |-> r.prompts,
      signature |-> signature, derive |-> derive, arg |-> arg,
      buttons |-> buttons,
      repeated |-> (call = "signingAbort" /\ out.call = call),
      over |-> (call = "signingInit" /\ (stellar_signing \/ stellar_activeTx # ZeroTx)) ]

Boot ==
    /\ stellar_signing = FALSE
    /\ stellar_activeTx = ZeroTx
    /\ out = [ call |-> "boot", failures |-> << >>, prompts |-> << >>,
                signature |-> NoSignature, derive |-> "none", arg |-> << >>,
                buttons |-> << >>, repeated |-> FALSE, over |-> FALSE ]
    /\ halted = FALSE
    /\ nops = 0
    /\ ref_signing = FALSE
    /\ ref_activeTx = ZeroTx
    /\ envelope = << >>

\* the firmware as built for its little-endian targets
Init == BYTE_ORDER = "LITTLE_ENDIAN" /\ Boot

\* either setting of the BYTE_ORDER macro
InitAnyOrder == BYTE_ORDER \in { "LITTLE_ENDIAN", "BIG_ENDIAN" } /\ Boot

\* stellar_signingInit(msg).  outcome is how key derivation ends; when it
\* returns NULL the memcpy from node->public_key + 1 either faults (ub =
\* "fault": the function stops after line 72) or reads the bytes g.
SigningInit(msg, outcome, ub, g) ==
    /\ ~halted
    /\ LET node == stellar_deriveNode(msg.index, outcome)
           faults == node.null /\ ub = "fault"
           read == IF node.null THEN NullRead(g) ELSE node
           step(r) == IF faults THEN signingInit_prefix(r, msg)
                                ELSE signingInit_run(r, msg, read, g)
           r == step(Run(stellar_signing, stellar_activeTx))
           f == step(Run(FALSE, ZeroTx))
       IN  /\ stellar_signing' = r.signing
           /\ stellar_activeTx' = r.tx
           /\ ref_signing' = f.signing
           /\ ref_activeTx' = f.tx
           /\ halted' = faults
           /\ out' = Sent("signingInit", r, NoSignature,
                          IF node.null THEN ub ELSE "ok", msg, << >>)
    /\ nops' = 0
    /\ envelope' = stellar_activeTx'.sha256_ctx.bytes
    /\ UNCHANGED BYTE_ORDER

\* stellar_addOperation(msg)
AddOperation(msg, button_src, button_op) ==
    /\ ~halted
    /\ stellar_signing => nops < MaxOpCalls
    /\ LET r == stellar_addOperation(Run(stellar_signing, stellar_activeTx),
                                     msg, button_src, button_op)
           f == stellar_addOperation(Run(ref_signing, ref_activeTx),
                                     msg, button_src, button_op)
       IN  /\ stellar_signing' = r.signing
           /\ stellar_activeTx' = r.tx
           /\ ref_signing' = f.signing
           /\ ref_activeTx' = f.tx
           /\ out' = IF stellar_signing
                     THEN Sent("addOperation", r, NoSignature, "none", msg,
                               << button_src, button_op >>)
                     ELSE Sent("addOperation", r, NoSignature, "none", << >>, << >>)
    /\ nops' = IF stellar_signing THEN nops + 1 ELSE nops
    /\ envelope' = IF stellar_activeTx'.confirmed_operations
                        > stellar_activeTx.confirmed_operations
                   THEN envelope \o OperationFields(msg)
                   ELSE envelope
    /\ UNCHANGED << BYTE_ORDER, halted >>

\* stellar_signingAbort()
SigningAbort ==
    /\ ~halted
    /\ LET r == stellar_signingAbort(Run(stellar_signing, stellar_activeTx))
           f == stellar_signingAbort(Run(ref_signing, ref_activeTx))
       IN  /\ stellar_signing' = r.signing
           /\ stellar_activeTx' = r.tx
           /\ ref_signing' = f.signing
           /\ ref_activeTx' = f.tx
           /\ out' = Sent("signingAbort", r, NoSignature, "none", << >>, << >>)
    /\ UNCHANGED << BYTE_ORDER, halted, nops, envelope >>

\* stellar_getSignatureForActiveTx(out_signature).  The context is finalised
\* (line 348) before node is first dereferenced (line 351).
GetSignature(outcome, ub, g) ==
    /\ ~halted
    /\ LET node == stellar_deriveNode(stellar_activeTx.account_index, outcome)
           faults == node.null /\ ub = "fault"
           read == IF node.null THEN NullRead(g) ELSE node
           r == Run(stellar_signing, stellar_activeTx)
       IN  /\ stellar_activeTx' = getSignature_final(stellar_activeTx)
           /\ ref_activeTx' = getSignature_final(ref_activeTx)
           /\ halted' = faults
           /\ out' = Sent("getSignature", r,
                          IF faults THEN NoSignature
                          ELSE stellar_getSignatureForActiveTx(stellar_activeTx, read),
                          IF node.null THEN ub ELSE "ok", << >>, << >>)
    /\ envelope' = << >>
    /\ UNCHANGED << BYTE_ORDER, stellar_signing, ref_signing, nops >>

Next ==
    \/ \E msg \in SessionHeaders, o \in DeriveOutcomes :
          \E ub \in UBOutcomes(o), g \in IndeterminateBytes : SigningInit(msg, o, ub, g)
    \/ \E msg \in OpMsgs : \E b \in Buttons(msg) : AddOperation(msg, b[1], b[2])
    \/ SigningAbort
    \/ \E o \in DeriveOutcomes :
          \E ub \in UBOutcomes(o), g \in IndeterminateBytes : GetSignature(o, ub, g)

Spec == Init /\ [][Next]_vars

\* Header processing alone, over every header shape
NextHeader ==
    \E msg \in AllHeaders, o \in DeriveOutcomes :
       \E ub \in UBOutcomes(o), g \in IndeterminateBytes : SigningInit(msg, o, ub, g)

SpecHeader == InitAnyOrder /\ [][NextHeader]_vars

\* Header processing and signing, over headers that carry a client key
NextKey ==
    \/ \E msg \in KeyHeaders, o \in DeriveOutcomes :
          \E ub \in UBOutcomes(o), g \in IndeterminateBytes : SigningInit(msg, o, ub, g)
    \/ \E o \in DeriveOutcomes :
          \E ub \in UBOutcomes(o), g \in IndeterminateBytes : GetSignature(o, ub, g)

SpecKey == Init /\ [][NextKey]_vars

\* Sessions over every operation shape
NextOps ==
    \/ \E msg \in OpHeaders, o \in DeriveOutcomes :
          \E ub \in UBOutcomes(o), g \in IndeterminateBytes : SigningInit(msg, o, ub, g)
    \/ \E msg \in AllOpMsgs : \E b \in Buttons(msg) : AddOperation(msg, b[1], b[2])

SpecOps == Init /\ [][NextOps]_vars

\* headers that declare up to as many operations as a session may send
CountHeaders ==
    { StellarSignTx(PassphrasePublic, 0, << 0, 0 >>, NoMemo, n) : n \in 0..MaxOpCalls }

\* an operation of a supported type arrives and the user accepts its prompts
AcceptStep ==
    \E msg \in { m \in OpMsgs : m.type \in {0, 1} } : AddOperation(msg, TRUE, TRUE)

\* Headers and operations, for the count of confirmed operations
NextCount ==
    \/ \E msg \in CountHeaders, o \in DeriveOutcomes :
          \E ub \in UBOutcomes(o), g \in IndeterminateBytes : SigningInit(msg, o, ub, g)
    \/ \E msg \in OpMsgs : \E b \in Buttons(msg) : AddOperation(msg, b[1], b[2])

\* the client goes on sending operations the user accepts for as long as
\* stellar_addOperation can be called
SpecCount == Init /\ [][NextCount]_vars /\ WF_vars(AcceptStep)

\* headers for the transaction summary: every memo type, and time bounds
SummaryHeaders ==
    { StellarSignTx(PassphrasePublic, 0, << 0, 0 >>, m, 1) :
        m \in { NoMemo, Memo(1, << 104, 105, 0 >>, 0), Memo(1, Fill(28, 97) \o << 0 >>, 0),
                Memo(2, << 0 >>, 0), Memo(3, << 0 >>, 32), Memo(4, << 0 >>, 32) } }
    \cup { StellarSignTx(PassphrasePublic, 0, << 5, 7 >>, Memo(2, << 0 >>, 0), 1) }

\* what the user can answer to the dialogs of the summary of msg (an answer
\* to a dialog that is not shown is written TRUE)
SummaryButtons(msg) ==
    { b \in BOOLEAN \X BOOLEAN \X BOOLEAN :
        /\ (~b[1] => b[2])
        /\ ((~b[2] \/ (msg.timebounds_start = 0 /\ msg.timebounds_end = 0)) => b[3]) }

\* stellar_layoutTransactionSummary(msg)
LayoutTransactionSummary(msg, buttons) ==
    /\ ~halted
    /\ LET r == stellar_layoutTransactionSummary(Run(stellar_signing, stellar_activeTx),
                                                 msg, buttons)
           f == stellar_layoutTransactionSummary(Run(ref_signing, ref_activeTx),
                                                 msg, buttons)
       IN  /\ stellar_signing' = r.signing
           /\ stellar_activeTx' = r.tx
           /\ ref_signing' = f.signing
           /\ ref_activeTx' = f.tx
           /\ out' = Sent("layoutTransactionSummary", r, NoSignature, "none", msg, buttons)
    /\ UNCHANGED << BYTE_ORDER, halted, nops, envelope >>

\* A header, and the summary shown for a header
NextSummary ==
    \/ \E msg \in SummaryHeaders, o \in DeriveOutcomes :
          \E ub \in UBOutcomes(o), g \in IndeterminateBytes : SigningInit(msg, o, ub, g)
    \/ \E msg \in SummaryHeaders : \E b \in SummaryButtons(msg) :
          LayoutTransactionSummary(msg, b)

SpecSummary == Init /\ [][NextSummary]_vars

\* uint32_t arguments of stellar_hashupdate_uint32
Values32 == { 0, 1, 2, 100, 255, 256, 65536, 16909060, 2147483647 }

\* uint64_t arguments of stellar_hashupdate_uint64, as registers
Values64 ==
    { Fill(8, 0), Fill(8, 255), Amount, SequenceNumber, << 1, 2, 3, 4, 5, 6, 7, 8 >>,
      << 0, 0, 0, 0, 0, 0, 0, 1 >>, << 128, 0, 0, 0, 0, 0, 0, 0 >> }

\* the record of a call of a hash-update primitive
SentPrimitive(call, value) == [call |-> call, arg |-> value]

\* stellar_hashupdate_uint32(value), called on its own
HashUpdateUint32(value) ==
    /\ Len(stellar_activeTx.sha256_ctx.bytes) < MaxPrimitiveBytes
    /\ stellar_activeTx' = stellar_hashupdate_uint32(stellar_activeTx, value)
    /\ out' = SentPrimitive("hashupdate_uint32", value)
    /\ UNCHANGED << BYTE_ORDER, stellar_signing, halted, nops, ref_signing, ref_activeTx,
                    envelope >>

\* stellar_hashupdate_uint64(value), called on its own
HashUpdateUint64(value) ==
    /\ Len(stellar_activeTx.sha256_ctx.bytes) < MaxPrimitiveBytes
    /\ stellar_activeTx' = stellar_hashupdate_uint64(stellar_activeTx, value)
    /\ out' = SentPrimitive("hashupdate_uint64", value)
    /\ UNCHANGED << BYTE_ORDER, stellar_signing, halted, nops, ref_signing, ref_activeTx,
                    envelope >>

\* The integer primitives alone, under either setting of BYTE_ORDER
NextPrimitives ==
    \/ \E value \in Values32 : HashUpdateUint32(value)
    \/ \E value \in Values64 : HashUpdateUint64(value)

SpecPrimitives == InitAnyOrder /\ [][NextPrimitives]_vars

\* byte values of the generated buffers of stellar_crc16
CrcBytes == { 0, 1, 128, 255 }

RECURSIVE SeqsUpTo(_, _)
SeqsUpTo(S, n) ==
    IF n = 0 THEN { << >> }
    ELSE LET shorter == SeqsUpTo(S, n - 1)
         IN  shorter \cup { Append(q, b) : q \in shorter, b \in S }

\* the ASCII digits "123456789"
Digits == << 49, 50, 51, 52, 53, 54, 55, 56, 57 >>

\* buffers given to stellar_crc16
CrcInputs == SeqsUpTo(CrcBytes, MaxCrcLen) \cup { Digits }

\* 32-byte keys given to stellar_publicAddressAsStr
AddressKeys ==
    { [i \in 1..32 |-> (a * i + b) % 256] : a \in { 0, 1, 7, 255 }, b \in { 0, 1, 128, 255 } }
    \cup { KeySource, KeyDestination, KeyIssuer, PubKeyAt(0) }

\* the record of a call of one of the address functions: its arguments, and
\* its result once it has returned
SentCodec(call, arg, length, returned, result) ==
    [call |-> call, arg |-> arg, length |-> length, returned |-> returned,
     result |-> result]

\* the calls of the address functions, about to be made: stellar_crc16 over
\* a buffer of at least length bytes, stellar_publicAddressAsStr over a key
CodecCalls ==
    UNION { { SentCodec("crc16", bytes, length, FALSE, 0) : length \in 0..Len(bytes) } :
              bytes \in CrcInputs }
    \cup { SentCodec("publicAddressAsStr", bytes, 32, FALSE, 0) : bytes \in AddressKeys }

InitCodec ==
    /\ BYTE_ORDER = "LITTLE_ENDIAN"
    /\ stellar_signing = FALSE
    /\ stellar_activeTx = ZeroTx
    /\ out \in CodecCalls
    /\ halted = FALSE
    /\ nops = 0
    /\ ref_signing = FALSE
    /\ ref_activeTx = ZeroTx
    /\ envelope = << >>

\* stellar_crc16(bytes, length)
Crc16 ==
    /\ out.call = "crc16"
    /\ ~out.returned
    /\ out' = [out EXCEPT !.returned = TRUE, !.result = stellar_crc16(out.arg, out.length)]
    /\ UNCHANGED << BYTE_ORDER, stellar_signing, stellar_activeTx, halted, nops,
                    ref_signing, ref_activeTx, envelope >>

\* stellar_publicAddressAsStr(bytes, out, 57)
PublicAddressAsStr ==
    /\ out.call = "publicAddressAsStr"
    /\ ~out.returned
    /\ out' = [out EXCEPT !.returned = TRUE, !.result = stellar_publicAddressAsStr(out.arg)]
    /\ UNCHANGED << BYTE_ORDER, stellar_signing, stellar_activeTx, halted, nops,
                    ref_signing, ref_activeTx, envelope >>

\* The address functions alone, each applied to the call drawn
NextCodec == Crc16 \/ PublicAddressAsStr

SpecCodec == InitCodec /\ [][NextCodec]_vars

----------------------------------------------------------------------------
(* Properties *)

Hashed == stellar_activeTx.sha256_ctx.bytes

Confirmed == stellar_activeTx.confirmed_operations

\* the step taken is a call of the named entry point
Called(name) == out'.call = name

\* C1: in every reachable state confirmed_operations <= num_operations.
C1_ConfirmedWithinDeclared ==
    stellar_activeTx.confirmed_operations <= stellar_activeTx.num_operations

\* C2: stellar_addOperation on an active session whose operations are all
\* confirmed fails: it sends a failure, requests no confirmation, appends
\* nothing to the hash and does not increment confirmed_operations.
C2_FullSessionRefusesOperation ==
    [][ (Called("addOperation") /\ stellar_signing
            /\ stellar_allOperationsConfirmed(stellar_activeTx))
        => /\ out'.failures # << >>
           /\ out'.prompts = << >>
           /\ stellar_activeTx'.sha256_ctx = stellar_activeTx.sha256_ctx
           /\ stellar_activeTx'.confirmed_operations = Confirmed ]_vars

\* C3: stellar_getSignatureForActiveTx writes a signature only when the
\* session is active and every declared operation is confirmed.
C3_SignatureOnlyWhenComplete ==
    [][ (Called("getSignature") /\ out'.signature # NoSignature)
        => (stellar_signing /\ stellar_allOperationsConfirmed(stellar_activeTx)) ]_vars

\* C4: after stellar_getSignatureForActiveTx has written a signature the
\* session is inactive (stellar_signing is false).
C4_SignatureEndsSession ==
    (out.call = "getSignature" /\ out.signature # NoSignature) => ~stellar_signing

\* the user rejected the source-account prompt / the operation prompt of the
\* stellar_addOperation call recorded in o
SrcPromptRejected(o) == o.arg.source_account.size > 0 /\ ~o.buttons[1]

OpPromptRejected(o) ==
    ~SrcPromptRejected(o) /\ o.arg.type \in {0, 1} /\ ~o.buttons[2]

\* C5: a rejected prompt inside stellar_addOperation leaves the session
\* inactive, sends the cancellation failure and does not increment
\* confirmed_operations; a rejected source-account prompt also appends
\* nothing to the hash.
C5_RejectionAborts ==
    [][ (Called("addOperation") /\ stellar_signing
            /\ (SrcPromptRejected(out') \/ OpPromptRejected(out')))
        => /\ ~stellar_signing'
           /\ out'.failures = << "ActionCancelled" >>
           /\ stellar_activeTx'.confirmed_operations = Confirmed
           /\ (SrcPromptRejected(out')
                 => stellar_activeTx'.sha256_ctx = stellar_activeTx.sha256_ctx) ]_vars

\* C5 witness: a payment was rejected at its prompt in an active session
C5_Witness ==
    /\ out.call = "addOperation"
    /\ out.prompts = << "Pay" >>
    /\ out.arg.type = 1
    /\ out.buttons = << TRUE, FALSE >>
    /\ out.failures = << "ActionCancelled" >>
    /\ ~stellar_signing

\* C6: stellar_addOperation with no active session sends a failure and
\* leaves the hash, both counters and the active flag unchanged.
C6_NoSessionNoEffect ==
    [][ (Called("addOperation") /\ ~stellar_signing)
        => /\ out'.failures = << "UnexpectedMessage" >>
           /\ out'.prompts = << >>
           /\ stellar_activeTx' = stellar_activeTx
           /\ stellar_signing' = stellar_signing ]_vars

\* C6 witness: an operation was refused after a session had been started and
\* then ended by an abort or a rejection
C6_Witness ==
    /\ out.call = "addOperation"
    /\ out.failures = << "UnexpectedMessage" >>
    /\ Len(Hashed) > 36
    /\ ~stellar_signing

NetworkTypeOf(passphrase) ==
    IF passphrase = PassphrasePublic THEN 1
    ELSE IF passphrase = PassphraseTestnet THEN 2 ELSE 3

\* C7: the statics after stellar_signingInit, and after any calls that
\* follow it, equal those of a device that was fresh when the header arrived
\* and received the same calls; right after the header they are fixed by the
\* header and the derived key.
C7_HeaderLeavesNoTrace ==
    /\ stellar_signing = ref_signing
    /\ stellar_activeTx = ref_activeTx
    /\ (out.call = "signingInit" /\ out.derive # "fault")
         => /\ stellar_signing
            /\ stellar_activeTx.sha256_ctx.valid
            /\ stellar_activeTx.confirmed_operations = 0
            /\ stellar_activeTx.num_operations = out.arg.num_operations
            /\ stellar_activeTx.account_index = out.arg.index
            /\ stellar_activeTx.network_type = NetworkTypeOf(out.arg.network_passphrase)
            /\ (out.derive = "ok" => stellar_activeTx.account_id = PubKeyAt(out.arg.index))

\* C7 witness: a header declaring one operation was processed, its key
\* derived, over statics that earlier calls had left behind
C7_Witness ==
    /\ out.call = "signingInit"
    /\ out.over
    /\ out.derive = "ok"
    /\ out.arg.num_operations = 1

\* C8: a stellar_signingAbort that directly follows a stellar_signingAbort
\* changes nothing and has no further effect.
C8_SecondAbortIsNoOp ==
    (out.call = "signingAbort" /\ out.repeated)
        => (out.failures = << >> /\ ~stellar_signing)

\* C9: the first 36 bytes stellar_signingInit hashes are SHA256(network
\* passphrase) followed by 00 00 00 02, whatever the other header fields.
C9_HeaderPrefix ==
    out.call = "signingInit"
        => /\ stellar_activeTx.sha256_ctx.valid
           /\ Len(Hashed) >= 36
           /\ SubSeq(Hashed, 1, 32) = sha256_Raw(out.arg.network_passphrase)
           /\ SubSeq(Hashed, 33, 36) = << 0, 0, 0, 2 >>

\* C9 witness: a test-network header was processed and hashed past its prefix
C9_Witness ==
    /\ out.call = "signingInit"
    /\ out.arg.network_passphrase = PassphraseTestnet
    /\ Len(Hashed) > 36

TimeBoundsField(msg) ==
    IF msg.timebounds_start # 0 \/ msg.timebounds_end # 0
    THEN u32(1) \o u32(0) \o u32(msg.timebounds_start)
                \o u32(0) \o u32(msg.timebounds_end)
    ELSE u32(0)

MemoField(msg) == Bytes(signingInit_memo(EmptyTx, msg))

\* C10: after the 36-byte prefix stellar_signingInit hashes, in this order,
\* u32(0) and the 32 key bytes, u32(fee), u64(sequence number), the
\* time-bounds field, the memo field and u32(operation count), and nothing else.
C10_HeaderFieldOrder ==
    (out.call = "signingInit" /\ out.derive # "fault")
        => /\ Len(Hashed) > 36
           /\ SubSeq(Hashed, 37, Len(Hashed)) =
                 u32(0) \o stellar_activeTx.account_id
                 \o u32(out.arg.fee)
                 \o u64(out.arg.sequence_number)
                 \o TimeBoundsField(out.arg)
                 \o MemoField(out.arg)
                 \o u32(out.arg.num_operations)
           /\ Len(stellar_activeTx.account_id) = 32
           /\ (out.derive = "ok" => stellar_activeTx.account_id = PubKeyAt(out.arg.index))

\* C10 witness: a header with both time bounds set and an id memo
C10_Witness ==
    /\ out.call = "signingInit"
    /\ out.derive = "ok"
    /\ out.arg.timebounds_start # 0
    /\ out.arg.timebounds_end # 0
    /\ out.arg.memo_type = 2

\* the statics a fresh device holds after the header msg, given the key
\* bytes that stellar_getPubkeyAtIndex wrote
AfterHeader(msg, bytes_pubkey) ==
    signingInit_rest(signingInit_prefix(Run(FALSE, ZeroTx), msg), msg, bytes_pubkey).tx

\* C11: the key hashed by stellar_signingInit and the key pair that signs in
\* stellar_getSignatureForActiveTx are those derived for the header's account
\* index; the statics after a header are the same whatever public key the
\* client sent with it.
C11_ClientKeyIgnored ==
    /\ (out.call = "signingInit" /\ out.derive # "fault")
         => /\ \A k \in ClientKeys :
                  stellar_activeTx =
                      AfterHeader(WithClientKey(out.arg, k), stellar_activeTx.account_id)
            /\ stellar_activeTx.account_index = out.arg.index
            /\ (out.derive = "ok"
                  => /\ stellar_activeTx.account_id = PubKeyAt(out.arg.index)
                     /\ SubSeq(Hashed, 41, 72) = PubKeyAt(out.arg.index))
    /\ (out.call = "getSignature" /\ out.derive = "ok")
         => /\ out.signature.public_key = PubKeyAt(stellar_activeTx.account_index)
            /\ out.signature.private_key = PrivKeyAt(stellar_activeTx.account_index)

\* C11 witness: a header whose client key is not the derived key was hashed
\* with the derived key
C11_Witness ==
    /\ out.call = "signingInit"
    /\ out.derive = "ok"
    /\ out.arg.index = 1
    /\ out.arg.public_key.size = 32
    /\ out.arg.public_key.bytes # stellar_activeTx.account_id

IsPrefix(p, q) == Len(p) <= Len(q) /\ SubSeq(q, 1, Len(p)) = p

\* the bytes the step appended to the hash
Appended == SubSeq(Hashed', Len(Hashed) + 1, Len(Hashed'))

\* the step is a call of stellar_addOperation on an active session that the
\* user accepted
AcceptedOperation ==
    /\ Called("addOperation")
    /\ stellar_signing
    /\ ~SrcPromptRejected(out')
    /\ ~OpPromptRejected(out')

\* the asset of a Payment as the claim C12 gives it
AssetField(a) ==
    CASE a.type = 0 -> u32(0)
      [] a.type = 1 -> u32(1) \o Take(a.code, 4) \o a.issuer.bytes
      [] a.type = 2 -> u32(2) \o Take(a.code, 12) \o a.issuer.bytes

\* C12: an accepted Payment appends, after the source field and the type,
\* address(destination), then the asset - u32(0) for Native, u32(1) and 4
\* code bytes for AlphaNum4, u32(2) and 12 code bytes for AlphaNum12, the two
\* custom assets followed by the raw 32-byte issuer - and then u64(amount).
C12_PaymentAssetEncoding ==
    [][ (AcceptedOperation /\ out'.arg.type = 1 /\ out'.arg.asset.type \in 0..2)
        => IsPrefix(SourceField(out'.arg) \o u32(1)
                       \o address(out'.arg.destination_account.bytes)
                       \o AssetField(out'.arg.asset) \o u64(out'.arg.amount),
                    Appended) ]_vars

\* C15: an accepted operation appends the source field - address(source) or
\* u32(0) - then u32(type); a CreateAccount then appends address(destination)
\* and u64(starting balance), and nothing else but the four bytes that close
\* the transaction.
C15_OperationEncoding ==
    [][ AcceptedOperation
        => /\ IsPrefix(SourceField(out'.arg) \o u32(out'.arg.type), Appended)
           /\ out'.arg.type = 0
                => LET fields == SourceField(out'.arg) \o u32(0)
                                   \o address(out'.arg.destination_account.bytes)
                                   \o u64(out'.arg.amount)
                   IN  /\ IsPrefix(fields, Appended)
                       /\ Len(Appended) - Len(fields) \in {0, 4} ]_vars

\* C15 witness: a CreateAccount with a source account was accepted and hashed
C15_Witness ==
    /\ out.call = "addOperation"
    /\ out.prompts = << "Op src account OK?", "Create account: " >>
    /\ stellar_signing
    /\ Confirmed = 1
    /\ Len(Hashed) > 36 + 84

\* C13: stellar_hashupdate_uint32 appends the four bytes of its argument and
\* stellar_hashupdate_uint64 the eight bytes of its argument, most significant
\* byte first, for every value and under either setting of BYTE_ORDER.
C13_BigEndianOnEveryHost ==
    [][ /\ Called("hashupdate_uint32") => Hashed' = Hashed \o Word32(out'.arg)
        /\ Called("hashupdate_uint64") => Hashed' = Hashed \o out'.arg ]_vars

\* the memo of a header as the claim C14 gives it
MemoEncoding(msg) ==
    u32(msg.memo_type) \o
    CASE msg.memo_type = 0 -> << >>
      [] msg.memo_type = 1 ->
           u32(strnlen(msg.memo_text, 28)) \o Take(msg.memo_text, strnlen(msg.memo_text, 28))
      [] msg.memo_type = 2 -> u64(msg.memo_id)
      [] msg.memo_type \in {3, 4} -> Take(msg.memo_hash.bytes, 32)

\* where the time-bounds field of the header ends in the hashed bytes
EndOfTimeBounds(msg) == 84 + Len(TimeBoundsField(msg))

\* C14: between the time bounds and the operation count stellar_signingInit
\* hashes u32(memo_type) followed by nothing (None), u32(length) and the text
\* bytes (Text, at most 28), u64(id) (Id), or the 32 payload bytes (Hash and
\* Return), whatever size the message declares for the memo hash.
C14_MemoEncoding ==
    (out.call = "signingInit" /\ out.derive # "fault" /\ out.arg.memo_type \in 0..4)
        => SubSeq(Hashed, EndOfTimeBounds(out.arg) + 1, Len(Hashed) - 4)
              = MemoEncoding(out.arg)

\* C16: when key derivation fails inside stellar_signingInit or
\* stellar_getSignatureForActiveTx the call sends a failure, the session is
\* inactive afterwards, no key bytes are hashed and no signature is written.
C16_DerivationFailureReported ==
    (out.call \in { "signingInit", "getSignature" } /\ out.derive \in { "fault", "read" })
        => /\ out.failures # << >>
           /\ ~stellar_signing
           /\ out.signature = NoSignature
           /\ Len(Hashed) <= 36

\* the bits of a byte sequence, most significant bit of each byte first
BitsOf(bytes) ==
    [j \in 1..(8 * Len(bytes)) |->
        (bytes[((j - 1) \div 8) + 1] \div (2 ^ (7 - ((j - 1) % 8)))) % 2]

\* the remainder of the bit string b, read as a polynomial over GF(2), by
\* x^16 + x^12 + x^5 + 1: each bit is shifted into a 16-bit register from the
\* right, and the polynomial is subtracted when a 1 leaves it on the left
RECURSIVE PolyRemainder(_, _, _)
PolyRemainder(reg, b, j) ==
    IF j > Len(b) THEN reg
    ELSE LET shifted == (reg * 2 + b[j]) % 65536
         IN  PolyRemainder(IF reg >= 32768 THEN BitXor(shifted, 4129, 16) ELSE shifted,
                           b, j + 1)

\* the remainder of v * x^16 for a byte v: the entry of v in the CRC table
CrcTable(v) == PolyRemainder(0, BitsOf(<< v >>) \o Fill(16, 0), 1)

\* CRC16 with polynomial 0x1021, initial value 0, no reflection and no final
\* XOR, a byte at a time: the remainder of (message so far) * x^16
RECURSIVE Crc16Bytes(_, _, _)
Crc16Bytes(reg, bytes, i) ==
    IF i > Len(bytes) THEN reg
    ELSE LET next == BitXor((reg % 256) * 256,
                            CrcTable(BitXor(reg \div 256, bytes[i], 8)), 16)
         IN  CASE next \in 0..65535 -> Crc16Bytes(next, bytes, i + 1)

Crc16Reference(bytes) == Crc16Bytes(0, bytes, 1)

\* C17: stellar_crc16 is the CRC16 with polynomial 0x1021 and initial value
\* 0x0000, most significant bit first, unreflected, without final XOR; it is
\* 0x31C3 for "123456789" and 0 for the empty input.
C17_Crc16IsXmodem ==
    (out.call = "crc16" /\ out.returned)
        => /\ out.result = Crc16Reference(Take(out.arg, out.length))
           /\ (out.length = 0 => out.result = 0)
           /\ (out.arg = Digits /\ out.length = 9 => out.result = 12739)

\* C17 witness: the checksum of "123456789" was computed
C17_Witness ==
    /\ out.call = "crc16"
    /\ out.returned
    /\ out.arg = Digits
    /\ out.length = 9
    /\ out.result = 12739

\* digit k (from 1) of the base32 form of the bytes: bits 5k-4 .. 5k of the
\* bit string
Base32Reference(bytes) ==
    LET b == BitsOf(bytes)
    IN  [k \in 1..((8 * Len(bytes)) \div 5) |->
            Base32Alphabet[16 * b[5 * k - 4] + 8 * b[5 * k - 3] + 4 * b[5 * k - 2]
                           + 2 * b[5 * k - 1] + b[5 * k] + 1]]

\* the payload of the address of a key: 6 << 3, the key, and the CRC16 of
\* these 33 bytes, low byte first
AddressPayload(key) ==
    LET crc == Crc16Reference(<< 48 >> \o key)
    IN  << 48 >> \o key \o << crc % 256, crc \div 256 >>

\* C18: stellar_publicAddressAsStr writes the base32 form of the 35-byte
\* payload [6 << 3] + key + CRC16 (low byte first) of the first 33 bytes: 56
\* characters that depend on the key alone, the first of them 'G'.
C18_AddressEncoding ==
    (out.call = "publicAddressAsStr" /\ out.returned)
        => /\ out.result.out = Base32Reference(AddressPayload(out.arg))
           /\ Len(out.result.out) = 56
           /\ out.result.ret = 56
           /\ out.result.out[1] = "G"

\* C18 witness: the address of the all-zero key, GAAA...AAAWHF
C18_Witness ==
    /\ out.call = "publicAddressAsStr"
    /\ out.returned
    /\ out.arg = Fill(32, 0)
    /\ out.result.out = << "G" >> \o Fill(52, "A") \o << "W", "H", "F" >>

C20_SignedBytesAreTheEnvelope ==
    (stellar_signing /\ ~halted /\ Confirmed = stellar_activeTx.num_operations)
        => Hashed = envelope \o << 0, 0, 0, 0 >>

\* C21: for an operation type other than 0 and 1 stellar_addOperation
\* appends the source-account field and u32(type) and nothing else, requests
\* no confirmation of the operation, leaves confirmed_operations as it was
\* and leaves the session active.
C21_UnsupportedTypeOnlyTagged ==
    [][ (Called("addOperation") /\ stellar_signing /\ ~SrcPromptRejected(out')
            /\ out'.arg.type \notin {0, 1})
        => /\ Appended = SourceField(out'.arg) \o u32(out'.arg.type)
           /\ out'.prompts = IF out'.arg.source_account.size > 0
                             THEN << "Op src account OK?" >> ELSE << >>
           /\ stellar_activeTx'.confirmed_operations = Confirmed
           /\ stellar_signing' ]_vars

\* C24: when the user rejects the prompt of stellar_confirmCreateAccountOp or
\* stellar_confirmPaymentOp, the call has appended the fields hashed before
\* the prompt and appends nothing after the abort, whatever num_operations is.
C24_NothingHashedAfterAbort ==
    [][ (Called("addOperation") /\ stellar_signing /\ OpPromptRejected(out'))
        => /\ ~stellar_signing'
           /\ Appended = OperationFields(out'.arg) ]_vars

\* every call of stellar_addOperation since the header of the active session
\* was an accepted operation of a supported type, and the header declared at
\* least one and no fewer than were sent
OnTrack ==
    /\ stellar_signing
    /\ ~halted
    /\ stellar_activeTx.num_operations >= 1
    /\ nops = Confirmed
    /\ Confirmed <= stellar_activeTx.num_operations

\* the header just processed arrived over an earlier session
Restarted == out.call = "signingInit" /\ out.over

\* C22: from a header with num_operations = N >= 1, while every operation is
\* of a supported type and accepted, each call adds exactly one to
\* confirmed_operations and stellar_allOperationsConfirmed() holds after the
\* call exactly when that was the N-th; such a session reaches the state
\* where all its operations are confirmed.
C22_AcceptedOperationsComplete ==
    /\ [][ (AcceptedOperation /\ out'.arg.type \in {0, 1} /\ OnTrack)
           => /\ stellar_activeTx'.confirmed_operations = Confirmed + 1
              /\ stellar_allOperationsConfirmed(stellar_activeTx')
                    <=> (Confirmed + 1 = stellar_activeTx.num_operations) ]_vars
    /\ OnTrack ~> \/ (OnTrack /\ stellar_allOperationsConfirmed(stellar_activeTx))
                  \/ ~OnTrack
                  \/ Restarted

\* C22 witness: the second of two declared operations was accepted
C22_Witness ==
    /\ OnTrack
    /\ out.call = "addOperation"
    /\ nops = 2
    /\ stellar_activeTx.num_operations = 2
    /\ stellar_allOperationsConfirmed(stellar_activeTx)

\* the memo type stellar_signingInit hashed for the header msg: the value
\* whose four bytes follow the time bounds in the hashed bytes
HashedMemoType(msg) ==
    CHOOSE t \in 0..5 :
        u32(t) = SubSeq(Hashed, EndOfTimeBounds(msg) + 1, EndOfTimeBounds(msg) + 4)

\* the memo dialog that corresponds to the memo of type t of msg
MemoDialog(t, msg) ==
    CASE t = 0 -> << Label("[No Memo]"), EmptyLine, EmptyLine, EmptyLine, EmptyLine >>
      [] t = 1 -> << Label("Memo (TEXT)"), TextLine(strlcpy(msg.memo_text, 0, 20)),
                     TextLine(strlcpy(msg.memo_text, 19, 10)), EmptyLine, EmptyLine >>
      [] t = 2 -> << Label("Memo (ID)"), stellar_format_uint64(msg.memo_id),
                     EmptyLine, EmptyLine, EmptyLine >>
      [] t \in {3, 4} ->
           << Label(IF t = 3 THEN "Memo (HASH)" ELSE "Memo (RETURN)"),
              data2hex(SubSeq(msg.memo_hash.bytes, 1, 8)),
              data2hex(SubSeq(msg.memo_hash.bytes, 9, 16)),
              data2hex(SubSeq(msg.memo_hash.bytes, 17, 24)),
              data2hex(SubSeq(msg.memo_hash.bytes, 25, 32)) >>

\* C23: the memo dialog of stellar_layoutTransactionSummary, called with the
\* header that stellar_signingInit has just hashed, shows the label and the
\* value of the memo that was hashed, for every memo type 0..4, and shows
\* "[No Memo]" only when the hashed memo type is 0.
C23_SummaryShowsHashedMemo ==
    [][ (Called("layoutTransactionSummary") /\ out.call = "signingInit"
            /\ out.derive # "fault" /\ out'.arg = out.arg /\ out'.buttons[1])
        => LET t == HashedMemoType(out.arg)
           IN  /\ t \in 0..4
               /\ out'.prompts[2] = MemoDialog(t, out.arg)
               /\ (out'.prompts[2][1] = Label("[No Memo]") => t = 0) ]_vars

====
